---- MODULE Spec2Model ----
(***************************************************************************)
(* pancurses-result: the session guard (initialize.rs), the root session   *)
(* handle Curses (curses.rs) and its optional Color capability.            *)
(*                                                                         *)
(* Threads call initscr, use the handle they own, and tear it down either  *)
(* explicitly (Curses::end_curses) or by scope exit (Drop for Curses).     *)
(* Every Mutex acquisition, every read and write of the INITIALIZED flag   *)
(* and every call of a pancurses primitive is a step of its own where      *)
(* another thread can interleave.  A call that starts by taking the guard  *)
(* is one step with the acquisition: a thread blocked on the Mutex has     *)
(* done nothing another thread can observe.                                *)
(***************************************************************************)
EXTENDS Integers, FiniteSets, Sequences, TLC

\* ---------------------------------------------------------------- bounds
NumThreads == 2
MaxStartColorCalls == 2
MaxSecs == 26
SourceCols == 2
DestCols == 3
MaxWindows == 2
MaxStatus == 32

\* ------------------------------------------------------------- constants
\* pancurses::ERR, the failure sentinel every primitive returns, and OK.
ERR == -1
OK == 0

Threads == 1..NumThreads
\* each thread has one binding for the Curses initscr returns to it; a
\* handle is named after the binding that holds it
Handles == Threads
NoThread == 0
NoHandle == 0
\* the statuses a primitive may hand back
Status == {ERR, OK}

VARIABLES
    INITIALIZED,   \* initialize.rs: the bool inside the Mutex
    guard,         \* the thread holding INITIALIZED's MutexGuard, or NoThread
    pc,            \* per thread: position inside initscr / end_window / callers
    caller,        \* per thread: who called end_window
    self,          \* per thread: the Curses the running method was called on
    r,             \* per thread: the Result end_window returned, while in scope
    curses,        \* per binding: the Curses value it holds and its history
    sessions,      \* pancurses: terminal sessions begun and not yet ended
    ev,            \* the last completed call: what it was and what it returned
    duration,      \* the Duration handed to Curses::set_timeout
    terminal,      \* pancurses: the input modes of the terminal
    call,          \* the last input-option call: what it did and returned
    source,        \* the cells of the Window a region is copied from
    destination,   \* the cells of the Window a region is copied onto
    copied,        \* the last region copy: its arguments and what it returned
    windows,       \* per binding: the Window it holds, made by clone or subwin
    surfaces,      \* pancurses: the native window each Window wraps
    wself,         \* per thread: the Window the running method was called on
    rawstatus,     \* the i32 a primitive handed back, as given to check
    checked        \* the Result check made of rawstatus, "none" before the call

sessionvars == <<INITIALIZED, guard, pc, caller, self, r, curses, sessions, ev>>
inputvars == <<duration, terminal, call>>
copyvars == <<source, destination, copied>>
windowvars == <<windows, surfaces, wself>>
checkvars == <<rawstatus, checked>>
libvars == <<inputvars, copyvars, windowvars, checkvars>>
vars == <<sessionvars, libvars>>

\* variant: every negative status is taken for a failure
check_negative(rc) == IF rc < 0 THEN "err" ELSE "ok"

\* lib.rs check / general::check: sentinel -> Result
check(rc) == IF rc = ERR THEN "err" ELSE "ok"

\* e is a teardown that succeeded with nothing observable in between:
\* end_window clearing the flag, or the return of the end_curses / drop
\* that called it when that return comes right after it
TeardownOk(e) ==
    \/ e.op = "end_window" /\ e.res = "ok"
    \/ e.op \in {"end_curses", "drop"} /\ e.res = "ok" /\ e.afterOk

\* The record of the last observable step: a call that returned (or
\* panicked), or initscr passing its check ("pass").  flag is the value of
\* INITIALIZED the step read, prim the primitive it invoked, afterOk whether
\* the observable step right before it was a successful teardown, calls the
\* number of invocations of prim and fail whether prim reported ERR.
Ev(op, h, res, flag, prim) ==
    [op |-> op, h |-> h, res |-> res, flag |-> flag, prim |-> prim,
     calls |-> IF prim = "none" THEN 0 ELSE 1,
     fail |-> (prim # "none" /\ res = "err"),
     afterOk |-> TeardownOk(ev)]

\* The return of end_curses or of Drop::drop: calls and fail sum up what the
\* teardown of handle h did with pancurses::endwin.
EvTeardown(op, h, res) ==
    [op |-> op, h |-> h, res |-> res, flag |-> FALSE,
     prim |-> IF curses[h].endwins = 0 THEN "none" ELSE "endwin",
     calls |-> curses[h].endwins,
     fail |-> curses[h].endwinErr,
     afterOk |-> TeardownOk(ev)]

\* Curses::new: key_name_mutex unlocked (held by no thread), color None.  The
\* other fields are
\* history of the value in the binding: scOk, some start_color call returned Ok;
\* scPrim and endwins, the invocations of pancurses::start_color and of
\* pancurses::endwin made for it; endwinErr, endwin reported ERR; ended,
\* end_curses has returned for it.  A binding holds a value from initscr until
\* the value is forgotten or dropped; while a method that took the value
\* runs, self of the calling thread names it.
Curses_new(t) ==
    [state |-> "live", owner |-> t, key_name_mutex |-> NoThread,
     color |-> FALSE,
     scOk |-> FALSE, scPrim |-> 0,
     endwins |-> 0, endwinErr |-> FALSE, ended |-> FALSE]

FreeSlot ==
    [state |-> "free", owner |-> NoThread, key_name_mutex |-> NoThread,
     color |-> FALSE,
     scOk |-> FALSE, scPrim |-> 0,
     endwins |-> 0, endwinErr |-> FALSE, ended |-> FALSE]

\* std::time::Duration: whole seconds and the nanoseconds of the fraction
NoDuration == [secs |-> 0, nanos |-> 0]

\* the terminal as pancurses::initscr leaves it: input is line buffered
\* (neither cbreak nor raw mode) and no half-delay is set
Terminal_new == [cbreak |-> FALSE, raw |-> FALSE, half_delay |-> 0]

\* no input-option call has been made yet.  before is the (cbreak, raw) pair
\* the call found, prims the primitives it invoked, in order, rcs what each
\* of them handed back and fail whether one of them reported failure.
NoCall ==
    [op |-> "none", mode |-> "none", tenths |-> 0, res |-> "none",
     prims |-> <<>>, rcs |-> <<>>, before |-> <<FALSE, FALSE>>,
     fail |-> FALSE]

\* the cell of a Window nothing has been put in
Blank == " "

\* The root Window lives inside the Curses; the bindings of Wins hold the
\* Windows clone and create_sub_window return.  A binding's Window wraps the
\* native window of the same number; native window 0 is stdscr.
RootWin == 0
NoWin == -1
Wins == 1..MaxWindows
Surfaces == 0..MaxWindows

\* an empty binding; w is the native window, kind how the Window was made
\* ("dup" by clone, "sub" by create_sub_window) and from the Window it was
\* made from
NoWindow == [state |-> "free", w |-> NoWin, kind |-> "none", from |-> NoWin]

\* a native window: created with the given contents (one cell stands for
\* them); delwins counts the delwin calls made on it
Surface_new(c) == [alive |-> TRUE, cell |-> c, delwins |-> 0]

NoSurface == [alive |-> FALSE, cell |-> Blank, delwins |-> 0]

\* no region has been copied yet
NoCopy ==
    [op |-> "none", source_start |-> 0, destination_start |-> 0,
     destination_end |-> 0, res |-> "none"]

Init ==
    /\ INITIALIZED = FALSE
    /\ guard = NoThread
    /\ pc = [t \in Threads |-> "idle"]
    /\ caller = [t \in Threads |-> "none"]
    /\ self = [t \in Threads |-> NoHandle]
    /\ r = [t \in Threads |-> "none"]
    /\ curses = [h \in Handles |-> FreeSlot]
    /\ sessions = 0
    /\ ev = [op |-> "none", h |-> NoHandle, res |-> "none",
             flag |-> FALSE, prim |-> "none", calls |-> 0, fail |-> FALSE,
             afterOk |-> FALSE]
    /\ duration = NoDuration
    /\ terminal = Terminal_new
    /\ call = NoCall
    /\ source = [x \in 0..(SourceCols - 1) |-> Blank]
    /\ destination = [x \in 0..(DestCols - 1) |-> Blank]
    /\ copied = NoCopy
    /\ windows = [w \in Wins |-> NoWindow]
    /\ surfaces = [s \in Surfaces |-> IF s = RootWin THEN Surface_new(Blank)
                                      ELSE NoSurface]
    /\ wself = [t \in Threads |-> NoWin]
    /\ rawstatus = OK
    /\ checked = "none"

\* a Curses the thread owns and may call a method on
Owns(t, h) == curses[h].state = "live" /\ curses[h].owner = t /\ pc[t] = "idle"

\* the positions of a thread inside Curses::key_name
InKeyName == {"kn_prim", "kn_return"}

\* some thread is inside a method it called through a shared reference
\* to the Curses (key_name, or a &self method of the root Window, which is
\* reached through Curses::window): the value cannot be moved or dropped
\* until it returns
Borrowed(h) ==
    \E u \in Threads : pc[u] \in InKeyName \cup {"insch"} /\ self[u] = h

\* the Curses has been moved into end_curses or is being dropped: no
\* reference to it is left
Moved(h) ==
    \E u \in Threads : caller[u] \in {"end_curses", "drop"} /\ self[u] = h

\* ------------------------------------------------- initialize.rs: initscr
\* variant: the flag is a plain static, nothing to wait for
initscr_lock_no_mutex(t) ==
    /\ pc[t] = "idle"
    /\ guard' = t
    /\ pc' = [pc EXCEPT ![t] = "is_check"]
    /\ UNCHANGED <<INITIALIZED, caller, self, r, curses, sessions, ev>>
    /\ UNCHANGED libvars

\* initscr(): INITIALIZED.lock().unwrap() blocks while another thread holds
\* the guard
initscr_lock(t) ==
    /\ pc[t] = "idle"
    /\ guard = NoThread
    /\ guard' = t
    /\ pc' = [pc EXCEPT ![t] = "is_check"]
    /\ UNCHANGED <<INITIALIZED, caller, self, r, curses, sessions, ev>>
    /\ UNCHANGED libvars

\* variant: the flag is read but the early return is missing
initscr_check_ignores_flag(t) ==
    /\ pc[t] = "is_check"
    /\ pc' = [pc EXCEPT ![t] = "is_set"]
    /\ ev' = Ev("initscr", NoHandle, "pass", INITIALIZED, "none")
    /\ UNCHANGED <<INITIALIZED, guard, caller, self, r, curses, sessions>>
    /\ UNCHANGED libvars

\* if *initialized { return Err(()) }: the guard is dropped by the return
initscr_check(t) ==
    /\ pc[t] = "is_check"
    /\ IF INITIALIZED
       THEN /\ pc' = [pc EXCEPT ![t] = "idle"]
            /\ guard' = IF guard = t THEN NoThread ELSE guard
            /\ ev' = Ev("initscr", NoHandle, "err", INITIALIZED, "none")
       ELSE /\ pc' = [pc EXCEPT ![t] = "is_set"]
            /\ ev' = Ev("initscr", NoHandle, "pass", INITIALIZED, "none")
            /\ UNCHANGED guard
    /\ UNCHANGED <<INITIALIZED, caller, self, r, curses, sessions>>
    /\ UNCHANGED libvars

\* variant: "*initialized = true" is missing
initscr_set_forgets_flag(t) ==
    /\ pc[t] = "is_set"
    /\ guard' = IF guard = t THEN NoThread ELSE guard
    /\ pc' = [pc EXCEPT ![t] = "is_prim"]
    /\ UNCHANGED <<INITIALIZED, caller, self, r, curses, sessions, ev>>
    /\ UNCHANGED libvars

\* *initialized = true; then the block ends and the guard is dropped
initscr_set(t) ==
    /\ pc[t] = "is_set"
    /\ INITIALIZED' = TRUE
    /\ guard' = IF guard = t THEN NoThread ELSE guard
    /\ pc' = [pc EXCEPT ![t] = "is_prim"]
    /\ UNCHANGED <<caller, self, r, curses, sessions, ev>>
    /\ UNCHANGED libvars

\* let w = pancurses::initscr(); Ok(Curses::new(Window::new(w)))
initscr_prim(t) ==
    /\ pc[t] = "is_prim"
    /\ curses[t].state = "free"
    /\ curses' = [curses EXCEPT ![t] = Curses_new(t)]
    /\ ev' = Ev("initscr", t, "ok", FALSE, "initscr")
    /\ sessions' = sessions + 1
    /\ pc' = [pc EXCEPT ![t] = "idle"]
    /\ UNCHANGED <<INITIALIZED, guard, caller, self, r>>
    /\ UNCHANGED libvars

\* ---------------------------------------------- initialize.rs: end_window
\* let mut initialized = INITIALIZED.lock().unwrap(): the first thing each
\* caller of end_window does, blocking while another thread holds the guard
end_window_lock(t) ==
    /\ guard = NoThread
    /\ guard' = t
    /\ pc' = [pc EXCEPT ![t] = "ew_body"]

\* the handle on whose behalf endwin runs counts the invocation
CountEndwin(h, rc) ==
    IF h = NoHandle THEN curses
    ELSE [curses EXCEPT ![h].endwins = @ + 1,
                        ![h].endwinErr = (@ \/ rc = ERR)]

\* variant: "*initialized = false" is missing
end_window_body_keeps_flag(t) ==
    /\ pc[t] = "ew_body"
    /\ IF INITIALIZED
       THEN \E rc \in Status :
            /\ curses' = CountEndwin(self[t], rc)
            /\ sessions' = IF rc # ERR /\ sessions > 0 THEN sessions - 1 ELSE sessions
            /\ r' = [r EXCEPT ![t] = check(rc)]
            /\ ev' = Ev("end_window", self[t], check(rc), TRUE, "endwin")
       ELSE /\ r' = [r EXCEPT ![t] = "err"]
            /\ ev' = Ev("end_window", self[t], "err", FALSE, "none")
            /\ UNCHANGED <<curses, sessions>>
    /\ pc' = [pc EXCEPT ![t] = "ew_unlock"]
    /\ UNCHANGED <<INITIALIZED, guard, caller, self>>
    /\ UNCHANGED libvars

\* variant: ending when no session is live quietly succeeds
end_window_body_idempotent(t) ==
    /\ pc[t] = "ew_body"
    /\ IF INITIALIZED
       THEN \E rc \in Status :
            /\ curses' = CountEndwin(self[t], rc)
            /\ sessions' = IF rc # ERR /\ sessions > 0 THEN sessions - 1 ELSE sessions
            /\ IF check(rc) = "err"
               THEN /\ r' = [r EXCEPT ![t] = "err"]
                    /\ UNCHANGED INITIALIZED
               ELSE /\ r' = [r EXCEPT ![t] = "ok"]
                    /\ INITIALIZED' = FALSE
            /\ ev' = Ev("end_window", self[t], check(rc), TRUE, "endwin")
       ELSE /\ r' = [r EXCEPT ![t] = "ok"]
            /\ ev' = Ev("end_window", self[t], "ok", FALSE, "none")
            /\ UNCHANGED <<INITIALIZED, curses, sessions>>
    /\ pc' = [pc EXCEPT ![t] = "ew_unlock"]
    /\ UNCHANGED <<guard, caller, self>>
    /\ UNCHANGED libvars

\* if *initialized { check(pancurses::endwin())?; *initialized = false; Ok(()) }
\* else { Err(()) }
end_window_body(t) ==
    /\ pc[t] = "ew_body"
    /\ IF INITIALIZED
       THEN \E rc \in Status :
            /\ curses' = CountEndwin(self[t], rc)
            /\ sessions' = IF rc # ERR /\ sessions > 0 THEN sessions - 1 ELSE sessions
            /\ IF check(rc) = "err"
               THEN /\ r' = [r EXCEPT ![t] = "err"]
                    /\ UNCHANGED INITIALIZED
               ELSE /\ r' = [r EXCEPT ![t] = "ok"]
                    /\ INITIALIZED' = FALSE
            /\ ev' = Ev("end_window", self[t], check(rc), TRUE, "endwin")
       ELSE /\ r' = [r EXCEPT ![t] = "err"]
            /\ ev' = Ev("end_window", self[t], "err", FALSE, "none")
            /\ UNCHANGED <<INITIALIZED, curses, sessions>>
    /\ pc' = [pc EXCEPT ![t] = "ew_unlock"]
    /\ UNCHANGED <<guard, caller, self>>
    /\ UNCHANGED libvars

\* variant: the MutexGuard is leaked, the Mutex stays locked
end_window_unlock_leaks(t) ==
    /\ pc[t] = "ew_unlock"
    /\ pc' = [pc EXCEPT ![t] =
                CASE caller[t] = "end_curses" -> "ec_forget"
                  [] caller[t] = "drop" -> "drop_unwrap"
                  [] OTHER -> "ew_return"]
    /\ UNCHANGED <<INITIALIZED, guard, caller, self, r, curses, sessions, ev>>
    /\ UNCHANGED libvars

\* end_window returns: the MutexGuard goes out of scope
end_window_unlock(t) ==
    /\ pc[t] = "ew_unlock"
    /\ guard' = IF guard = t THEN NoThread ELSE guard
    /\ pc' = [pc EXCEPT ![t] =
                CASE caller[t] = "end_curses" -> "ec_forget"
                  [] caller[t] = "drop" -> "drop_unwrap"
                  [] OTHER -> "ew_return"]
    /\ UNCHANGED <<INITIALIZED, caller, self, r, curses, sessions, ev>>
    /\ UNCHANGED libvars

\* -------------------------------------------- curses.rs: Curses::end_curses
\* pub fn end_curses(self): the handle is moved into the call
end_curses_call(t, h) ==
    /\ Owns(t, h)
    /\ ~Borrowed(h)
    /\ self' = [self EXCEPT ![t] = h]
    /\ caller' = [caller EXCEPT ![t] = "end_curses"]
    /\ end_window_lock(t)
    /\ UNCHANGED <<INITIALIZED, r, curses, sessions, ev>>
    /\ UNCHANGED libvars

\* variant: without mem::forget, self is dropped when end_curses returns
end_curses_no_forget(t) ==
    /\ pc[t] = "ec_forget"
    /\ curses' = [curses EXCEPT ![self[t]].ended = TRUE]
    /\ ev' = EvTeardown("end_curses", self[t], r[t])
    /\ caller' = [caller EXCEPT ![t] = "drop"]
    /\ end_window_lock(t)
    /\ UNCHANGED <<INITIALIZED, self, r, sessions>>
    /\ UNCHANGED libvars

\* variant: end_curses(&mut self), the caller keeps the handle
end_curses_by_ref(t) ==
    /\ pc[t] = "ec_forget"
    /\ curses' = [curses EXCEPT ![self[t]].ended = TRUE]
    /\ ev' = EvTeardown("end_curses", self[t], r[t])
    /\ self' = [self EXCEPT ![t] = NoHandle]
    /\ caller' = [caller EXCEPT ![t] = "none"]
    /\ pc' = [pc EXCEPT ![t] = "idle"]
    /\ r' = [r EXCEPT ![t] = "none"]
    /\ UNCHANGED <<INITIALIZED, guard, sessions>>
    /\ UNCHANGED libvars

\* std::mem::forget(self); r
end_curses_forget(t) ==
    /\ pc[t] = "ec_forget"
    /\ curses' = [curses EXCEPT ![self[t]] = FreeSlot]
    /\ ev' = EvTeardown("end_curses", self[t], r[t])
    /\ self' = [self EXCEPT ![t] = NoHandle]
    /\ caller' = [caller EXCEPT ![t] = "none"]
    /\ pc' = [pc EXCEPT ![t] = "idle"]
    /\ r' = [r EXCEPT ![t] = "none"]
    /\ UNCHANGED <<INITIALIZED, guard, sessions>>
    /\ UNCHANGED libvars

\* ------------------------------------------------ curses.rs: Drop for Curses
\* scope exit of a Curses that was not moved away
drop_call(t, h) ==
    /\ Owns(t, h)
    /\ ~Borrowed(h)
    /\ self' = [self EXCEPT ![t] = h]
    /\ caller' = [caller EXCEPT ![t] = "drop"]
    /\ end_window_lock(t)
    /\ UNCHANGED <<INITIALIZED, r, curses, sessions, ev>>
    /\ UNCHANGED libvars

\* variant: "let _ = end_window();"
drop_swallows(t) ==
    /\ pc[t] = "drop_unwrap"
    /\ curses' = [curses EXCEPT ![self[t]] = FreeSlot]
    /\ ev' = EvTeardown("drop", self[t], "ok")
    /\ self' = [self EXCEPT ![t] = NoHandle]
    /\ caller' = [caller EXCEPT ![t] = "none"]
    /\ pc' = [pc EXCEPT ![t] = "idle"]
    /\ r' = [r EXCEPT ![t] = "none"]
    /\ UNCHANGED <<INITIALIZED, guard, sessions>>
    /\ UNCHANGED libvars

\* end_window().unwrap(): Err panics, the value is gone either way
drop_unwrap(t) ==
    /\ pc[t] = "drop_unwrap"
    /\ curses' = [curses EXCEPT ![self[t]] = FreeSlot]
    /\ ev' = EvTeardown("drop", self[t], IF r[t] = "ok" THEN "ok" ELSE "panic")
    /\ self' = [self EXCEPT ![t] = NoHandle]
    /\ caller' = [caller EXCEPT ![t] = "none"]
    /\ pc' = [pc EXCEPT ![t] = "idle"]
    /\ r' = [r EXCEPT ![t] = "none"]
    /\ UNCHANGED <<INITIALIZED, guard, sessions>>
    /\ UNCHANGED libvars

\* ------------------------------------------------- curses.rs: color subsystem
\* variant: Color is stored before the primitive's status is looked at
start_color_eager(t, h) ==
    /\ Owns(t, h)
    /\ IF ~curses[h].color
       THEN /\ curses[h].scPrim < MaxStartColorCalls
            /\ \E rc \in Status :
                /\ curses' = [curses EXCEPT
                       ![h].scPrim = @ + 1,
                       ![h].color = TRUE,
                       ![h].scOk = (@ \/ check(rc) = "ok")]
                /\ ev' = Ev("start_color", h, check(rc), FALSE, "start_color")
       ELSE /\ ev' = Ev("start_color", h, "ok", FALSE, "none")
            /\ UNCHANGED curses
    /\ UNCHANGED <<INITIALIZED, guard, pc, caller, self, r, sessions>>
    /\ UNCHANGED libvars

\* variant: the is_none() test is missing
start_color_always(t, h) ==
    /\ Owns(t, h)
    /\ curses[h].scPrim < MaxStartColorCalls
    /\ \E rc \in Status :
        /\ curses' = [curses EXCEPT
               ![h].scPrim = @ + 1,
               ![h].color = (@ \/ check(rc) = "ok"),
               ![h].scOk = (@ \/ check(rc) = "ok")]
        /\ ev' = Ev("start_color", h, check(rc), FALSE, "start_color")
    /\ UNCHANGED <<INITIALIZED, guard, pc, caller, self, r, sessions>>
    /\ UNCHANGED libvars

\* if self.color.is_none() { check(pancurses::start_color())?;
\*                           self.color = Some(Color::new()); } Ok(())
start_color(t, h) ==
    /\ Owns(t, h)
    /\ IF ~curses[h].color
       THEN /\ curses[h].scPrim < MaxStartColorCalls
            /\ \E rc \in Status :
                /\ curses' = [curses EXCEPT
                       ![h].scPrim = @ + 1,
                       ![h].color = (check(rc) = "ok"),
                       ![h].scOk = (@ \/ check(rc) = "ok")]
                /\ ev' = Ev("start_color", h, check(rc), FALSE, "start_color")
       ELSE /\ ev' = Ev("start_color", h, "ok", FALSE, "none")
            /\ UNCHANGED curses
    /\ UNCHANGED <<INITIALIZED, guard, pc, caller, self, r, sessions>>
    /\ UNCHANGED libvars

\* variant: get_or_insert instead of expect
color_lazy(t, h) ==
    /\ Owns(t, h)
    /\ curses' = [curses EXCEPT ![h].color = TRUE]
    /\ ev' = Ev("color", h, "ok", FALSE, "none")
    /\ UNCHANGED <<INITIALIZED, guard, pc, caller, self, r, sessions>>
    /\ UNCHANGED libvars

\* self.color.as_ref().expect(..)
color(t, h) ==
    /\ Owns(t, h)
    /\ ev' = Ev("color", h, IF curses[h].color THEN "ok" ELSE "panic", FALSE, "none")
    /\ UNCHANGED <<INITIALIZED, guard, pc, caller, self, r, curses, sessions>>
    /\ UNCHANGED libvars

\* self.color.as_mut().expect(..)
color_mut(t, h) ==
    /\ Owns(t, h)
    /\ ev' = Ev("color_mut", h, IF curses[h].color THEN "ok" ELSE "panic", FALSE, "none")
    /\ UNCHANGED <<INITIALIZED, guard, pc, caller, self, r, curses, sessions>>
    /\ UNCHANGED libvars

\* ------------------------------------------------ curses.rs: root window
window(t, h) ==
    /\ Owns(t, h)
    /\ ev' = Ev("window", h, "ok", FALSE, "none")
    /\ UNCHANGED <<INITIALIZED, guard, pc, caller, self, r, curses, sessions>>
    /\ UNCHANGED libvars

window_mut(t, h) ==
    /\ Owns(t, h)
    /\ ev' = Ev("window_mut", h, "ok", FALSE, "none")
    /\ UNCHANGED <<INITIALIZED, guard, pc, caller, self, r, curses, sessions>>
    /\ UNCHANGED libvars

\* ------------------------------------------------------------ specification
Next ==
    \/ \E t \in Threads : initscr_lock(t)
    \/ \E t \in Threads : initscr_check(t)
    \/ \E t \in Threads : initscr_set(t)
    \/ \E t \in Threads : initscr_prim(t)
    \/ \E t \in Threads : end_window_body(t)
    \/ \E t \in Threads : end_window_unlock(t)
    \/ \E t \in Threads, h \in Handles : end_curses_call(t, h)
    \/ \E t \in Threads : end_curses_forget(t)
    \/ \E t \in Threads, h \in Handles : drop_call(t, h)
    \/ \E t \in Threads : drop_unwrap(t)
    \/ \E t \in Threads, h \in Handles : start_color(t, h)
    \/ \E t \in Threads, h \in Handles : color(t, h)
    \/ \E t \in Threads, h \in Handles : color_mut(t, h)
    \/ \E t \in Threads, h \in Handles : window(t, h)
    \/ \E t \in Threads, h \in Handles : window_mut(t, h)

Spec == Init /\ [][Next]_vars

\* ------------------------------------------- the guard called from the crate
\* initialize.rs on its own: end_window is pub(crate), so code of the crate
\* may call it without a handle; the handles initscr returns are kept.
end_window_call(t) ==
    /\ pc[t] = "idle"
    /\ self' = [self EXCEPT ![t] = NoHandle]
    /\ caller' = [caller EXCEPT ![t] = "crate"]
    /\ end_window_lock(t)
    /\ UNCHANGED <<INITIALIZED, r, curses, sessions, ev>>
    /\ UNCHANGED libvars

end_window_return(t) ==
    /\ pc[t] = "ew_return"
    /\ caller' = [caller EXCEPT ![t] = "none"]
    /\ pc' = [pc EXCEPT ![t] = "idle"]
    /\ r' = [r EXCEPT ![t] = "none"]
    /\ UNCHANGED <<INITIALIZED, guard, self, curses, sessions, ev>>
    /\ UNCHANGED libvars

NextGuard ==
    \/ \E t \in Threads : initscr_lock(t)
    \/ \E t \in Threads : initscr_check(t)
    \/ \E t \in Threads : initscr_set(t)
    \/ \E t \in Threads : initscr_prim(t)
    \/ \E t \in Threads : end_window_call(t)
    \/ \E t \in Threads : end_window_body(t)
    \/ \E t \in Threads : end_window_unlock(t)
    \/ \E t \in Threads : end_window_return(t)

SpecGuard == Init /\ [][NextGuard]_vars

\* ------------------------------------------- curses.rs: input options
\* the fractions of a second a Duration is drawn with, in nanoseconds
SubsecNanos ==
    {0, 50000000, 99999999, 100000000, 160000000, 199999999,
     550000000, 600000000, 999999999}

Durations == [secs : 0..MaxSecs, nanos : SubsecNanos]

InputBufferingMode == {"Buffered", "UnbufferedWithSignals", "UnbufferedNoSignals"}

\* general::as_millis: the Duration in whole milliseconds
as_millis(d) == d.secs * 1000 + d.nanos \div 1000000

\* the pancurses primitives: each changes its mode unless it reports ERR
half_delay(T, tenths, rc) ==
    IF rc = ERR THEN T ELSE [T EXCEPT !.half_delay = tenths]

cbreak(T, rc) == IF rc = ERR THEN T ELSE [T EXCEPT !.cbreak = TRUE]

nocbreak(T, rc) == IF rc = ERR THEN T ELSE [T EXCEPT !.cbreak = FALSE]

raw(T, rc) == IF rc = ERR THEN T ELSE [T EXCEPT !.raw = TRUE]

noraw(T, rc) == IF rc = ERR THEN T ELSE [T EXCEPT !.raw = FALSE]

\* Result::and: the first Err wins
and(l, rr) == IF l = "ok" THEN rr ELSE l

\* variant: the tenths are rounded to the nearest instead of down
set_timeout_rounds(t, h) ==
    /\ Owns(t, h)
    /\ LET tenths == (as_millis(duration) + 50) \div 100 IN
       IF tenths < 1 \/ tenths > 255
       THEN /\ call' = [NoCall EXCEPT !.op = "set_timeout", !.tenths = tenths,
                                      !.res = "err"]
            /\ UNCHANGED terminal
       ELSE \E rc \in Status :
            /\ terminal' = half_delay(terminal, tenths, rc)
            /\ call' = [NoCall EXCEPT !.op = "set_timeout", !.tenths = tenths,
                                      !.res = check(rc),
                                      !.prims = <<"half_delay">>,
                                      !.rcs = <<rc>>,
                                      !.fail = (rc = ERR)]
    /\ UNCHANGED <<checkvars, sessionvars, duration, copyvars, windowvars>>

\* let tenths = as_millis(duration) / 100;
\* if tenths < 1 || tenths > 255 { Err(())? }
\* check(pancurses::half_delay(tenths))
set_timeout(t, h) ==
    /\ Owns(t, h)
    /\ LET tenths == as_millis(duration) \div 100 IN
       IF tenths < 1 \/ tenths > 255
       THEN /\ call' = [NoCall EXCEPT !.op = "set_timeout", !.tenths = tenths,
                                      !.res = "err"]
            /\ UNCHANGED terminal
       ELSE \E rc \in Status :
            /\ terminal' = half_delay(terminal, tenths, rc)
            /\ call' = [NoCall EXCEPT !.op = "set_timeout", !.tenths = tenths,
                                      !.res = check(rc),
                                      !.prims = <<"half_delay">>,
                                      !.rcs = <<rc>>,
                                      !.fail = (rc = ERR)]
    /\ UNCHANGED <<checkvars, sessionvars, duration, copyvars, windowvars>>

\* the primitives each mode invokes, in the order of the call
ModePrims(mode) ==
    CASE mode = "Buffered" -> <<"noraw", "nocbreak">>
      [] mode = "UnbufferedWithSignals" -> <<"noraw", "cbreak">>
      [] mode = "UnbufferedNoSignals" -> <<"cbreak", "raw">>

\* variant: `check(first())?; check(second())`, the first failure returns
set_input_buffering_mode_short(t, h, mode) ==
    /\ Owns(t, h)
    /\ \E rcl, rcr \in Status :
        IF rcl = ERR
        THEN /\ terminal' = terminal
             /\ call' = [NoCall EXCEPT
                    !.op = "set_input_buffering_mode", !.mode = mode,
                    !.res = "err",
                    !.prims = <<ModePrims(mode)[1]>>,
                    !.rcs = <<rcl>>,
                    !.before = <<terminal.cbreak, terminal.raw>>,
                    !.fail = TRUE]
        ELSE /\ terminal' =
                  CASE mode = "Buffered" -> nocbreak(noraw(terminal, rcl), rcr)
                    [] mode = "UnbufferedWithSignals" ->
                          cbreak(noraw(terminal, rcl), rcr)
                    [] mode = "UnbufferedNoSignals" ->
                          raw(cbreak(terminal, rcl), rcr)
             /\ call' = [NoCall EXCEPT
                    !.op = "set_input_buffering_mode", !.mode = mode,
                    !.res = check(rcr),
                    !.prims = ModePrims(mode),
                    !.rcs = <<rcl, rcr>>,
                    !.before = <<terminal.cbreak, terminal.raw>>,
                    !.fail = (rcr = ERR)]
    /\ UNCHANGED <<checkvars, sessionvars, duration, copyvars, windowvars>>

\* variant: UnbufferedWithSignals turns cbreak on and leaves raw as it was
set_input_buffering_mode_partial(t, h, mode) ==
    /\ Owns(t, h)
    /\ \E rcl, rcr \in Status :
        /\ terminal' =
              CASE mode = "Buffered" -> nocbreak(noraw(terminal, rcl), rcr)
                [] mode = "UnbufferedWithSignals" -> cbreak(terminal, rcr)
                [] mode = "UnbufferedNoSignals" -> raw(cbreak(terminal, rcl), rcr)
        /\ call' = [NoCall EXCEPT
               !.op = "set_input_buffering_mode", !.mode = mode,
               !.res = IF mode = "UnbufferedWithSignals" THEN check(rcr)
                       ELSE and(check(rcl), check(rcr)),
               !.prims = IF mode = "UnbufferedWithSignals" THEN <<"cbreak">>
                         ELSE ModePrims(mode),
               !.rcs = IF mode = "UnbufferedWithSignals" THEN <<rcr>>
                       ELSE <<rcl, rcr>>,
               !.before = <<terminal.cbreak, terminal.raw>>,
               !.fail = IF mode = "UnbufferedWithSignals" THEN rcr = ERR
                        ELSE (rcl = ERR \/ rcr = ERR)]
    /\ UNCHANGED <<checkvars, sessionvars, duration, copyvars, windowvars>>

\* match mode { .. => { let l = check(first()); let r = check(second());
\*                      l.and(r) } }
set_input_buffering_mode(t, h, mode) ==
    /\ Owns(t, h)
    /\ \E rcl, rcr \in Status :
        /\ terminal' =
              CASE mode = "Buffered" -> nocbreak(noraw(terminal, rcl), rcr)
                [] mode = "UnbufferedWithSignals" -> cbreak(noraw(terminal, rcl), rcr)
                [] mode = "UnbufferedNoSignals" -> raw(cbreak(terminal, rcl), rcr)
        /\ call' = [NoCall EXCEPT
               !.op = "set_input_buffering_mode", !.mode = mode,
               !.res = and(check(rcl), check(rcr)),
               !.prims = ModePrims(mode),
               !.rcs = <<rcl, rcr>>,
               !.before = <<terminal.cbreak, terminal.raw>>,
               !.fail = (rcl = ERR \/ rcr = ERR)]
    /\ UNCHANGED <<checkvars, sessionvars, duration, copyvars, windowvars>>

\* check(pancurses::curs_set(visibility)): the one-primitive shape most
\* operations of Curses have
set_cursor_visibility(t, h) ==
    /\ Owns(t, h)
    /\ \E rc \in Status :
        call' = [NoCall EXCEPT !.op = "set_cursor_visibility",
                               !.res = check(rc),
                               !.prims = <<"curs_set">>,
                               !.rcs = <<rc>>,
                               !.fail = (rc = ERR)]
    /\ UNCHANGED <<checkvars, sessionvars, duration, terminal, copyvars,
                   windowvars>>

\* pancurses::mouseinterval(as_millis(interval)); Ok(()): what the primitive
\* hands back is thrown away
set_mouse_interval(t, h) ==
    /\ Owns(t, h)
    /\ \E rc \in Status :
        call' = [NoCall EXCEPT !.op = "set_mouse_interval",
                               !.res = "ok",
                               !.prims = <<"mouseinterval">>,
                               !.rcs = <<rc>>,
                               !.fail = (rc = ERR)]
    /\ UNCHANGED <<checkvars, sessionvars, duration, terminal, copyvars,
                   windowvars>>

\* the event masks handed to set_mouse_mask: none, or some events
MouseMasks == {0, 1}

\* Ok(pancurses::mousemask(mask, old_mask_ptr)): the primitive hands back
\* the events it can report, none of those asked for when it failed
set_mouse_mask(t, h) ==
    /\ Owns(t, h)
    /\ \E mask \in MouseMasks : \E applied \in {0, mask} :
        call' = [NoCall EXCEPT !.op = "set_mouse_mask",
                               !.res = "ok",
                               !.prims = <<"mousemask">>,
                               !.rcs = <<applied>>,
                               !.fail = (mask # 0 /\ applied = 0)]
    /\ UNCHANGED <<checkvars, sessionvars, duration, terminal, copyvars,
                   windowvars>>

\* a session begun by thread 1, which holds the handle, and a Duration to
\* hand to set_timeout
InitInput ==
    /\ INITIALIZED = TRUE
    /\ guard = NoThread
    /\ pc = [t \in Threads |-> "idle"]
    /\ caller = [t \in Threads |-> "none"]
    /\ self = [t \in Threads |-> NoHandle]
    /\ r = [t \in Threads |-> "none"]
    /\ curses = [h \in Handles |-> IF h = 1 THEN Curses_new(1) ELSE FreeSlot]
    /\ sessions = 1
    /\ ev = [op |-> "initscr", h |-> 1, res |-> "ok", flag |-> FALSE,
             prim |-> "initscr", calls |-> 1, fail |-> FALSE,
             afterOk |-> FALSE]
    /\ duration \in Durations
    /\ terminal = Terminal_new
    /\ call = NoCall
    /\ source = [x \in 0..(SourceCols - 1) |-> Blank]
    /\ destination = [x \in 0..(DestCols - 1) |-> Blank]
    /\ copied = NoCopy
    /\ windows = [w \in Wins |-> NoWindow]
    /\ surfaces = [s \in Surfaces |-> IF s = RootWin THEN Surface_new(Blank)
                                      ELSE NoSurface]
    /\ wself = [t \in Threads |-> NoWin]
    /\ rawstatus = OK
    /\ checked = "none"

NextInput ==
    \/ \E t \in Threads, h \in Handles : set_timeout(t, h)
    \/ \E t \in Threads, h \in Handles, mode \in InputBufferingMode :
          set_input_buffering_mode(t, h, mode)
    \/ \E t \in Threads, h \in Handles : set_cursor_visibility(t, h)
    \/ \E t \in Threads, h \in Handles : set_mouse_interval(t, h)
    \/ \E t \in Threads, h \in Handles : set_mouse_mask(t, h)

SpecInput == InitInput /\ [][NextInput]_vars

\* ------------------------------------------- curses.rs: Curses::key_name
\* Curses is Sync: every thread may call key_name(&self) on a live handle.
\* variant: no lock is taken before the primitive
key_name_lock_no_mutex(t, h) ==
    /\ pc[t] = "idle"
    /\ curses[h].state = "live"
    /\ ~Moved(h)
    /\ curses' = [curses EXCEPT ![h].key_name_mutex = t]
    /\ self' = [self EXCEPT ![t] = h]
    /\ pc' = [pc EXCEPT ![t] = "kn_prim"]
    /\ UNCHANGED <<INITIALIZED, guard, caller, r, sessions, ev>>
    /\ UNCHANGED libvars

\* let _key_name = self.key_name_mutex.lock().unwrap(): blocks while another
\* thread holds the handle's Mutex
key_name_lock(t, h) ==
    /\ pc[t] = "idle"
    /\ curses[h].state = "live"
    /\ ~Moved(h)
    /\ curses[h].key_name_mutex = NoThread
    /\ curses' = [curses EXCEPT ![h].key_name_mutex = t]
    /\ self' = [self EXCEPT ![t] = h]
    /\ pc' = [pc EXCEPT ![t] = "kn_prim"]
    /\ UNCHANGED <<INITIALIZED, guard, caller, r, sessions, ev>>
    /\ UNCHANGED libvars

\* pancurses::keyname(key_code) runs to its end
key_name_prim(t) ==
    /\ pc[t] = "kn_prim"
    /\ pc' = [pc EXCEPT ![t] = "kn_return"]
    /\ ev' = Ev("key_name", self[t], "ok", FALSE, "keyname")
    /\ UNCHANGED <<INITIALIZED, guard, caller, self, r, curses, sessions>>
    /\ UNCHANGED libvars

\* key_name returns: _key_name goes out of scope
key_name_return(t) ==
    /\ pc[t] = "kn_return"
    /\ curses' = [curses EXCEPT ![self[t]].key_name_mutex =
                     IF @ = t THEN NoThread ELSE @]
    /\ self' = [self EXCEPT ![t] = NoHandle]
    /\ pc' = [pc EXCEPT ![t] = "idle"]
    /\ UNCHANGED <<INITIALIZED, guard, caller, r, sessions, ev>>
    /\ UNCHANGED libvars

NextKeyName ==
    \/ \E t \in Threads : initscr_lock(t)
    \/ \E t \in Threads : initscr_check(t)
    \/ \E t \in Threads : initscr_set(t)
    \/ \E t \in Threads : initscr_prim(t)
    \/ \E t \in Threads : end_window_body(t)
    \/ \E t \in Threads : end_window_unlock(t)
    \/ \E t \in Threads, h \in Handles : end_curses_call(t, h)
    \/ \E t \in Threads : end_curses_forget(t)
    \/ \E t \in Threads, h \in Handles : drop_call(t, h)
    \/ \E t \in Threads : drop_unwrap(t)
    \/ \E t \in Threads, h \in Handles : key_name_lock(t, h)
    \/ \E t \in Threads : key_name_prim(t)
    \/ \E t \in Threads : key_name_return(t)

SpecKeyName == Init /\ [][NextKeyName]_vars

\* a thread inside a call goes on running: none of the steps between taking
\* a lock and the return waits for anything
Proceed(t) ==
    \/ initscr_check(t)
    \/ initscr_set(t)
    \/ initscr_prim(t)
    \/ end_window_body(t)
    \/ end_window_unlock(t)
    \/ end_curses_forget(t)
    \/ drop_unwrap(t)
    \/ key_name_prim(t)
    \/ key_name_return(t)

\* the same program with every thread scheduled again and again
SpecLocks ==
    /\ Init
    /\ [][NextKeyName]_vars
    /\ \A t \in Threads : WF_vars(Proceed(t))

\* ------------------------------------------------ window.rs: region copies
\* Two Windows of one line each, SourceCols and DestCols wide; a Point is the
\* column x of its line.
Chars == {Blank, "a", "b"}

\* pancurses copywin: the cells of dst from dmincol to dmaxcol are taken from
\* src starting at smincol; ERR when either rectangle leaves its window.
\* With overlay set the copy is non-destructive: a blank source cell leaves
\* the destination cell as it is.
copywin_fits(src, dst, smincol, dmincol, dmaxcol) ==
    /\ dmincol <= dmaxcol
    /\ dmincol \in DOMAIN dst /\ dmaxcol \in DOMAIN dst
    /\ smincol \in DOMAIN src
    /\ smincol + (dmaxcol - dmincol) \in DOMAIN src

copywin(src, dst, smincol, dmincol, dmaxcol, overlay) ==
    [x \in DOMAIN dst |->
        IF x < dmincol \/ x > dmaxcol THEN dst[x]
        ELSE IF overlay /\ src[smincol + (x - dmincol)] = Blank THEN dst[x]
        ELSE src[smincol + (x - dmincol)]]

\* the wrapper's call: check(self.w.copywin(&destination.w, .., overlay))
copy_region(op, source_start, destination_start, destination_end, overlay) ==
    /\ IF copywin_fits(source, destination, source_start,
                       destination_start, destination_end)
       THEN /\ destination' = copywin(source, destination, source_start,
                                      destination_start, destination_end,
                                      overlay)
            /\ copied' = [op |-> op, source_start |-> source_start,
                          destination_start |-> destination_start,
                          destination_end |-> destination_end,
                          res |-> check(OK)]
       ELSE /\ UNCHANGED destination
            /\ copied' = [op |-> op, source_start |-> source_start,
                          destination_start |-> destination_start,
                          destination_end |-> destination_end,
                          res |-> check(ERR)]
    /\ UNCHANGED <<checkvars, sessionvars, inputvars, source, windowvars>>

\* Window::overwrite_region_onto: copywin with a final argument of true
overwrite_region_onto(source_start, destination_start, destination_end) ==
    copy_region("overwrite_region_onto", source_start, destination_start,
                destination_end, TRUE)

\* Window::overlay_region_onto: copywin with a final argument of true
overlay_region_onto(source_start, destination_start, destination_end) ==
    copy_region("overlay_region_onto", source_start, destination_start,
                destination_end, TRUE)

\* Window::put_window_region: source.overwrite_region_onto(.., self, ..)
put_window_region(destination_start, destination_end, source_start) ==
    overwrite_region_onto(source_start, destination_start, destination_end)

\* Window::put_window_text_region: source.overlay_region_onto(.., self, ..)
put_window_text_region(destination_start, destination_end, source_start) ==
    overlay_region_onto(source_start, destination_start, destination_end)

\* two Windows with any contents
InitCopy ==
    /\ INITIALIZED = TRUE
    /\ guard = NoThread
    /\ pc = [t \in Threads |-> "idle"]
    /\ caller = [t \in Threads |-> "none"]
    /\ self = [t \in Threads |-> NoHandle]
    /\ r = [t \in Threads |-> "none"]
    /\ curses = [h \in Handles |-> IF h = 1 THEN Curses_new(1) ELSE FreeSlot]
    /\ sessions = 1
    /\ ev = [op |-> "initscr", h |-> 1, res |-> "ok", flag |-> FALSE,
             prim |-> "initscr", calls |-> 1, fail |-> FALSE,
             afterOk |-> FALSE]
    /\ duration = NoDuration
    /\ terminal = Terminal_new
    /\ call = NoCall
    /\ source \in [0..(SourceCols - 1) -> Chars]
    /\ destination \in [0..(DestCols - 1) -> Chars]
    /\ copied = NoCopy
    /\ windows = [w \in Wins |-> NoWindow]
    /\ surfaces = [s \in Surfaces |-> IF s = RootWin THEN Surface_new(Blank)
                                      ELSE NoSurface]
    /\ wself = [t \in Threads |-> NoWin]
    /\ rawstatus = OK
    /\ checked = "none"

NextCopy ==
    \/ \E s \in 0..(SourceCols - 1), d, e \in 0..(DestCols - 1) :
          overwrite_region_onto(s, d, e)
    \/ \E s \in 0..(SourceCols - 1), d, e \in 0..(DestCols - 1) :
          overlay_region_onto(s, d, e)
    \/ \E s \in 0..(SourceCols - 1), d, e \in 0..(DestCols - 1) :
          put_window_region(d, e, s)
    \/ \E s \in 0..(SourceCols - 1), d, e \in 0..(DestCols - 1) :
          put_window_text_region(d, e, s)

SpecCopy == InitCopy /\ [][NextCopy]_vars

\* ------------------------------------------------ window.rs: Window values
AllWins == {RootWin} \cup Wins

\* the characters put into a Window
Marks == {"a"}

\* the handles the root Window can be reached through: Curses::window and
\* Curses::window_mut borrow the Curses
RootHandles == {h \in Handles : curses[h].state = "live" /\ ~Moved(h)}

\* the binding holds a Window a method can be called on
Live(w) ==
    IF w = RootWin THEN RootHandles # {} ELSE windows[w].state = "live"

\* self.w: the native window of a Window
Surf(w) == IF w = RootWin THEN RootWin ELSE windows[w].w

Cell(w) == surfaces[Surf(w)].cell

\* some thread is inside a &self method of the Window
Shared(w) == \E u \in Threads : pc[u] = "insch" /\ wself[u] = w

\* what &mut self and self ask for: no other reference to the Window is in
\* use (for the root Window, none to the Curses it is reached through)
Exclusive(w) ==
    IF w = RootWin THEN \A h \in RootHandles : ~Borrowed(h) ELSE ~Shared(w)

\* the binding the next Window is bound to: the first one that holds none
FreeWin ==
    IF \A w \in Wins : windows[w].state = "live" THEN NoWin
    ELSE CHOOSE w \in Wins :
            /\ windows[w].state = "free"
            /\ \A v \in Wins : windows[v].state = "free" => w <= v

\* variant: the clone wraps the native window of the original
clone_aliases(t, w, n) ==
    /\ pc[t] = "idle"
    /\ Live(w)
    /\ n = FreeWin
    /\ windows' = [windows EXCEPT ![n] =
          [state |-> "live", w |-> Surf(w), kind |-> "dup", from |-> w]]
    /\ UNCHANGED <<checkvars, sessionvars, inputvars, copyvars, surfaces, wself>>

\* Clone for Window: Window { w: self.w.dupwin() }, a new native window with
\* the contents of the original; n is the binding the clone is bound to
clone(t, w, n) ==
    /\ pc[t] = "idle"
    /\ Live(w)
    /\ n = FreeWin
    /\ windows' = [windows EXCEPT ![n] =
          [state |-> "live", w |-> n, kind |-> "dup", from |-> w]]
    /\ surfaces' = [surfaces EXCEPT ![n] = Surface_new(Cell(w))]
    /\ UNCHANGED <<checkvars, sessionvars, inputvars, copyvars, wself>>

\* match self.w.subwin(..) { Ok(w) => Ok(Window { w }), Err(_) => Err(()) }
create_sub_window(t, w, n) ==
    /\ pc[t] = "idle"
    /\ Live(w)
    /\ n = FreeWin
    /\ \E ok \in BOOLEAN :
        IF ok
        THEN /\ windows' = [windows EXCEPT ![n] =
                   [state |-> "live", w |-> n, kind |-> "sub", from |-> w]]
             /\ surfaces' = [surfaces EXCEPT ![n] = Surface_new(Cell(w))]
        ELSE UNCHANGED <<windows, surfaces>>
    /\ UNCHANGED <<checkvars, sessionvars, inputvars, copyvars, wself>>

\* pub fn put_char(&mut self, ch): check(self.w.addch(ch.into()))
put_char(t, w) ==
    /\ pc[t] = "idle"
    /\ Live(w)
    /\ Exclusive(w)
    /\ \E ch \in Marks, rc \in Status :
        surfaces' = IF check(rc) = "err" THEN surfaces
                    ELSE [surfaces EXCEPT ![Surf(w)].cell = ch]
    /\ UNCHANGED <<checkvars, sessionvars, inputvars, copyvars, windows, wself>>

\* pub fn insert_char(&self, ch): the call starts; a shared reference is
\* all it needs
insert_char_call(t, w) ==
    /\ pc[t] = "idle"
    /\ Live(w)
    /\ pc' = [pc EXCEPT ![t] = "insch"]
    /\ wself' = [wself EXCEPT ![t] = w]
    /\ self' = [self EXCEPT ![t] =
                  IF w = RootWin THEN CHOOSE h \in RootHandles : TRUE ELSE @]
    /\ UNCHANGED <<INITIALIZED, guard, caller, r, curses, sessions, ev>>
    /\ UNCHANGED <<checkvars, inputvars, copyvars, windows, surfaces>>

\* check(self.w.insch(ch.into())): the primitive writes the native window
insert_char_prim(t) ==
    /\ pc[t] = "insch"
    /\ \E ch \in Marks, rc \in Status :
        surfaces' = IF check(rc) = "err" THEN surfaces
                    ELSE [surfaces EXCEPT ![Surf(wself[t])].cell = ch]
    /\ pc' = [pc EXCEPT ![t] = "idle"]
    /\ wself' = [wself EXCEPT ![t] = NoWin]
    /\ self' = [self EXCEPT ![t] = NoHandle]
    /\ UNCHANGED <<INITIALIZED, guard, caller, r, curses, sessions, ev>>
    /\ UNCHANGED <<checkvars, inputvars, copyvars, windows>>

\* variant: delete_window(&mut self), the caller keeps the Window
delete_window_by_ref(t, w) ==
    /\ pc[t] = "idle"
    /\ w \in Wins
    /\ Live(w)
    /\ Exclusive(w)
    /\ \E rc \in Status :
        surfaces' = [surfaces EXCEPT ![Surf(w)].delwins = @ + 1,
                                     ![Surf(w)].alive = (check(rc) = "err")]
    /\ UNCHANGED <<checkvars, sessionvars, inputvars, copyvars, windows, wself>>

\* pub fn delete_window(self): check(self.w.delwin()); the Window is moved
\* into the call and pancurses::Window::delwin consumes self.w, so nothing
\* is left to drop.  A native window whose delwin reported ERR is not
\* reached again.
delete_window(t, w) ==
    /\ pc[t] = "idle"
    /\ w \in Wins
    /\ Live(w)
    /\ Exclusive(w)
    /\ windows' = [windows EXCEPT ![w] = NoWindow]
    /\ surfaces' = [surfaces EXCEPT ![Surf(w)] = NoSurface]
    /\ UNCHANGED <<checkvars, sessionvars, inputvars, copyvars, wself>>

\* scope exit of a Window that was not moved away: Window has no Drop of
\* its own, its field w: pancurses::Window releases the native window
drop_window(t, w) ==
    /\ pc[t] = "idle"
    /\ w \in Wins
    /\ Live(w)
    /\ Exclusive(w)
    /\ windows' = [windows EXCEPT ![w] = NoWindow]
    /\ surfaces' = [surfaces EXCEPT ![Surf(w)] = NoSurface]
    /\ UNCHANGED <<checkvars, sessionvars, inputvars, copyvars, wself>>

\* a session begun by thread 1; no Window has been made from the root yet
InitWindow ==
    /\ INITIALIZED = TRUE
    /\ guard = NoThread
    /\ pc = [t \in Threads |-> "idle"]
    /\ caller = [t \in Threads |-> "none"]
    /\ self = [t \in Threads |-> NoHandle]
    /\ r = [t \in Threads |-> "none"]
    /\ curses = [h \in Handles |-> IF h = 1 THEN Curses_new(1) ELSE FreeSlot]
    /\ sessions = 1
    /\ ev = [op |-> "initscr", h |-> 1, res |-> "ok", flag |-> FALSE,
             prim |-> "initscr", calls |-> 1, fail |-> FALSE,
             afterOk |-> FALSE]
    /\ duration = NoDuration
    /\ terminal = Terminal_new
    /\ call = NoCall
    /\ source = [x \in 0..(SourceCols - 1) |-> Blank]
    /\ destination = [x \in 0..(DestCols - 1) |-> Blank]
    /\ copied = NoCopy
    /\ windows = [w \in Wins |-> NoWindow]
    /\ surfaces = [s \in Surfaces |-> IF s = RootWin THEN Surface_new(Blank)
                                     ELSE NoSurface]
    /\ wself = [t \in Threads |-> NoWin]
    /\ rawstatus = OK
    /\ checked = "none"

\* the life of Window values: made, written, released, with the session
\* they were made in torn down at any point
NextWindow ==
    \/ \E t \in Threads, w \in AllWins, n \in Wins : clone(t, w, n)
    \/ \E t \in Threads, w \in AllWins, n \in Wins : create_sub_window(t, w, n)
    \/ \E t \in Threads, w \in AllWins : put_char(t, w)
    \/ \E t \in Threads, w \in AllWins : delete_window(t, w)
    \/ \E t \in Threads, w \in AllWins : drop_window(t, w)
    \/ \E t \in Threads, h \in Handles : end_curses_call(t, h)
    \/ \E t \in Threads : end_window_body(t)
    \/ \E t \in Threads : end_window_unlock(t)
    \/ \E t \in Threads : end_curses_forget(t)

SpecWindow == InitWindow /\ [][NextWindow]_vars

\* Windows shared between threads: Window is Sync, so every thread may call
\* the &self methods of a live Window
NextShare ==
    \/ \E t \in Threads, w \in AllWins, n \in Wins : clone(t, w, n)
    \/ \E t \in Threads, w \in AllWins : put_char(t, w)
    \/ \E t \in Threads, w \in AllWins : insert_char_call(t, w)
    \/ \E t \in Threads : insert_char_prim(t)
    \/ \E t \in Threads, w \in AllWins : delete_window(t, w)
    \/ \E t \in Threads, h \in Handles : end_curses_call(t, h)
    \/ \E t \in Threads : end_window_body(t)
    \/ \E t \in Threads : end_window_unlock(t)
    \/ \E t \in Threads : end_curses_forget(t)

SpecShare == InitWindow /\ [][NextShare]_vars

\* ------------------------------------------- lib.rs: the one-file version
\* lib.rs keeps the guard, initscr and Curses in one file.  Its initscr is
\* the one of initialize.rs; its teardown is the method
\* Curses::end_window(&mut self), which leaves the handle with the caller,
\* and Drop for Curses calls that method.  Here ended says that the session
\* the handle began has been ended.

\* initscr() called by a thread that has a binding for the handle
lib_initscr_call(t) ==
    /\ curses[t].state = "free"
    /\ initscr_lock(t)

\* c.end_window(): let mut initialized = INITIALIZED.lock().unwrap()
lib_end_window_call(t, h) ==
    /\ Owns(t, h)
    /\ ~Borrowed(h)
    /\ self' = [self EXCEPT ![t] = h]
    /\ caller' = [caller EXCEPT ![t] = "end_window"]
    /\ end_window_lock(t)
    /\ UNCHANGED <<INITIALIZED, r, curses, sessions, ev>>
    /\ UNCHANGED libvars

\* pancurses::endwin has handed back rc: when it succeeded, the live
\* session, whichever handle began it, is over
lib_endwin(rc) ==
    [k \in Handles |->
        IF rc # ERR /\ curses[k].state = "live"
        THEN [curses[k] EXCEPT !.ended = TRUE]
        ELSE curses[k]]

\* variant: as initialize.rs has it, Err when no session is live
lib_end_window_body_strict(t) ==
    /\ pc[t] = "ew_body"
    /\ IF INITIALIZED
       THEN \E rc \in Status :
            /\ curses' = lib_endwin(rc)
            /\ sessions' = IF rc # ERR /\ sessions > 0 THEN sessions - 1
                            ELSE sessions
            /\ IF check(rc) = "err"
               THEN /\ r' = [r EXCEPT ![t] = "err"]
                    /\ UNCHANGED INITIALIZED
               ELSE /\ r' = [r EXCEPT ![t] = "ok"]
                    /\ INITIALIZED' = FALSE
            /\ ev' = Ev("end_window", self[t], check(rc), TRUE, "endwin")
       ELSE /\ r' = [r EXCEPT ![t] = "err"]
            /\ ev' = Ev("end_window", self[t], "err", FALSE, "none")
            /\ UNCHANGED <<INITIALIZED, curses, sessions>>
    /\ pc' = [pc EXCEPT ![t] = "ew_unlock"]
    /\ UNCHANGED <<guard, caller, self>>
    /\ UNCHANGED libvars

\* if *initialized { check(pancurses::endwin())?; *initialized = false; }
\* Ok(())
lib_end_window_body(t) ==
    /\ pc[t] = "ew_body"
    /\ IF INITIALIZED
       THEN \E rc \in Status :
            /\ curses' = lib_endwin(rc)
            /\ sessions' = IF rc # ERR /\ sessions > 0 THEN sessions - 1
                            ELSE sessions
            /\ IF check(rc) = "err"
               THEN /\ r' = [r EXCEPT ![t] = "err"]
                    /\ UNCHANGED INITIALIZED
               ELSE /\ r' = [r EXCEPT ![t] = "ok"]
                    /\ INITIALIZED' = FALSE
            /\ ev' = Ev("end_window", self[t], check(rc), TRUE, "endwin")
       ELSE /\ r' = [r EXCEPT ![t] = "ok"]
            /\ ev' = Ev("end_window", self[t], "ok", FALSE, "none")
            /\ UNCHANGED <<INITIALIZED, curses, sessions>>
    /\ pc' = [pc EXCEPT ![t] = "ew_unlock"]
    /\ UNCHANGED <<guard, caller, self>>
    /\ UNCHANGED libvars

\* c.end_window() has returned to its caller, who still has the handle
lib_end_window_return(t) ==
    /\ pc[t] = "ew_return"
    /\ self' = [self EXCEPT ![t] = NoHandle]
    /\ caller' = [caller EXCEPT ![t] = "none"]
    /\ pc' = [pc EXCEPT ![t] = "idle"]
    /\ r' = [r EXCEPT ![t] = "none"]
    /\ UNCHANGED <<INITIALIZED, guard, curses, sessions, ev>>
    /\ UNCHANGED libvars

\* self.end_window().unwrap() in drop: Err panics, the value is gone either
\* way; what the end_window did is in the record of the step before
lib_drop_unwrap(t) ==
    /\ pc[t] = "drop_unwrap"
    /\ curses' = [curses EXCEPT ![self[t]] = FreeSlot]
    /\ ev' = Ev("drop", self[t], IF r[t] = "ok" THEN "ok" ELSE "panic",
                FALSE, "none")
    /\ self' = [self EXCEPT ![t] = NoHandle]
    /\ caller' = [caller EXCEPT ![t] = "none"]
    /\ pc' = [pc EXCEPT ![t] = "idle"]
    /\ r' = [r EXCEPT ![t] = "none"]
    /\ UNCHANGED <<INITIALIZED, guard, sessions>>
    /\ UNCHANGED libvars

\* threads begin sessions, call end_window on the handles they hold as
\* often as they like, and let the handles go out of scope
NextLib ==
    \/ \E t \in Threads : lib_initscr_call(t)
    \/ \E t \in Threads : initscr_check(t)
    \/ \E t \in Threads : initscr_set(t)
    \/ \E t \in Threads : initscr_prim(t)
    \/ \E t \in Threads, h \in Handles : lib_end_window_call(t, h)
    \/ \E t \in Threads : lib_end_window_body(t)
    \/ \E t \in Threads : end_window_unlock(t)
    \/ \E t \in Threads : lib_end_window_return(t)
    \/ \E t \in Threads, h \in Handles : drop_call(t, h)
    \/ \E t \in Threads : lib_drop_unwrap(t)

SpecLib == Init /\ [][NextLib]_vars

\* ------------------------------------------------------- lib.rs: check
\* the largest i32
MaxI32 == 2147483647

\* the i32 values check is tried on: the statuses around zero, ERR and OK
\* among them, and the two ends of the type
RawStatuses == (-MaxStatus..MaxStatus) \cup {-MaxI32, MaxI32}

\* a primitive has handed back some i32
InitCheck ==
    /\ INITIALIZED = FALSE
    /\ guard = NoThread
    /\ pc = [t \in Threads |-> "idle"]
    /\ caller = [t \in Threads |-> "none"]
    /\ self = [t \in Threads |-> NoHandle]
    /\ r = [t \in Threads |-> "none"]
    /\ curses = [h \in Handles |-> FreeSlot]
    /\ sessions = 0
    /\ ev = [op |-> "none", h |-> NoHandle, res |-> "none",
             flag |-> FALSE, prim |-> "none", calls |-> 0, fail |-> FALSE,
             afterOk |-> FALSE]
    /\ duration = NoDuration
    /\ terminal = Terminal_new
    /\ call = NoCall
    /\ source = [x \in 0..(SourceCols - 1) |-> Blank]
    /\ destination = [x \in 0..(DestCols - 1) |-> Blank]
    /\ copied = NoCopy
    /\ windows = [w \in Wins |-> NoWindow]
    /\ surfaces = [s \in Surfaces |-> IF s = RootWin THEN Surface_new(Blank)
                                      ELSE NoSurface]
    /\ wself = [t \in Threads |-> NoWin]
    /\ rawstatus \in RawStatuses
    /\ checked = "none"

\* check(r)
check_call ==
    /\ checked = "none"
    /\ checked' = check(rawstatus)
    /\ UNCHANGED <<sessionvars, inputvars, copyvars, windowvars, rawstatus>>

NextCheck == check_call

SpecCheck == InitCheck /\ [][NextCheck]_vars

\* ------------------------------------------------------------------ claims
\* an observable step was taken: the steps that change a handle or the
\* record of the last call are the observable ones
Fired == <<ev, curses>>' # <<ev, curses>>

\* C1: at most one session is live at any time; an initscr call that reads
\* the INITIALIZED flag as set returns Err, leaves the flag set and does not
\* reach pancurses::initscr.
C1_SecondInitscrFails ==
    /\ [](sessions <= 1)
    /\ [][\A t \in Threads :
            (pc[t] = "is_check" /\ pc'[t] # "is_check" /\ INITIALIZED)
            => /\ pc'[t] = "idle"
               /\ ev'.op = "initscr" /\ ev'.res = "err" /\ ev'.prim = "none"
               /\ INITIALIZED'
               /\ sessions' = sessions
               /\ curses' = curses]_vars

W_C1 ==
    /\ ev.op = "initscr" /\ ev.res = "err" /\ ev.flag
    /\ INITIALIZED /\ sessions = 1

\* C2: the check-then-set of INITIALIZED in initscr is atomic: a thread is
\* between its check and the end of its set only while it holds the guard,
\* at most one thread at a time is past a check that found no live session,
\* and while it is there the flag is set, so every other call returns Err.
PassedCheck == {"is_set", "is_prim"}

C2_CheckThenSetAtomic ==
    /\ Cardinality({t \in Threads : pc[t] \in PassedCheck}) <= 1
    /\ \A t \in Threads : pc[t] \in {"is_check", "is_set"} => guard = t
    /\ \A t \in Threads : pc[t] = "is_prim" => INITIALIZED

W_C2 ==
    /\ \E t \in Threads : pc[t] = "is_prim"
    /\ ev.op = "initscr" /\ ev.res = "err"

\* C3: an initscr call whose check comes right after a successful teardown
\* (end_window, end_curses or drop reporting Ok) passes the check.
C3_InitscrAfterTeardown ==
    (ev.op = "initscr" /\ ev.afterOk) => ev.res \in {"pass", "ok"}

W_C3 ==
    ev.op = "initscr" /\ ev.afterOk /\ ev.res = "pass"

\* C4: after end_window has run with the flag set, the flag is clear, whether
\* endwin succeeded or failed.
C4_TeardownAlwaysReleases ==
    (ev.op = "end_window" /\ ev.flag) => ~INITIALIZED

\* C5: per handle, end_curses and Drop together invoke endwin exactly once:
\* when either of them returns, endwin has been invoked once for the handle,
\* the value is gone, and Drop never runs (so never panics) for a handle
\* that end_curses has returned for.
C5_EndwinOncePerHandle ==
    /\ ev.op \in {"end_curses", "drop"} => ev.calls = 1
    /\ \A t \in Threads :
          (caller[t] = "drop" /\ self[t] # NoHandle) => ~curses[self[t]].ended

W_C5 ==
    /\ ev.op = "end_curses" /\ ev.calls = 1
    /\ curses[ev.h].state = "free"
    /\ \A t \in Threads : pc[t] = "idle"

\* C6: once end_curses has returned for a handle, with Ok or with Err, the
\* value is gone: no thread owns it, no method of it runs and its root
\* Window is not reached through window()/window_mut().
HandleOps == {"window", "window_mut", "start_color", "color", "color_mut"}

C6_EndCursesConsumes ==
    /\ ev.op = "end_curses" => curses[ev.h].state = "free"
    /\ ev.op \in HandleOps => ~curses[ev.h].ended
    /\ \A h \in Handles : ~curses[h].ended

W_C6 ==
    /\ ev.op = "end_curses" /\ ev.res = "err"
    /\ curses[ev.h].state = "free"
    /\ \A t \in Threads : pc[t] = "idle"

\* C7: a drop during which endwin reported failure panics.
C7_FailedDropPanics ==
    (ev.op = "drop" /\ ev.fail) => ev.res = "panic"

W_C7 ==
    ev.op = "drop" /\ ev.fail /\ ev.calls = 1 /\ ev.res = "panic"

\* C8: end_window run while the flag is not set returns Err, does not invoke
\* endwin and leaves the flag not set.
C8_EndWindowNoSession ==
    [][\A t \in Threads :
        (pc[t] = "ew_body" /\ pc'[t] # "ew_body" /\ ~INITIALIZED)
        => /\ r'[t] = "err"
           /\ ev'.op = "end_window" /\ ev'.res = "err" /\ ev'.prim = "none"
           /\ ~INITIALIZED'
           /\ sessions' = sessions
           /\ curses' = curses]_vars

W_C8 ==
    /\ ev.op = "end_window" /\ ~ev.flag /\ ev.res = "err"
    /\ ~INITIALIZED

\* C9: while no start_color call on a handle has returned Ok, every call of
\* color or color_mut on it panics and changes nothing: color stays None,
\* no primitive is invoked.
C9_ColorBeforeStartPanics ==
    [][\A h \in Handles :
        (Fired /\ ev'.op \in {"color", "color_mut"} /\ ev'.h = h
            /\ ~curses[h].scOk)
        => /\ ev'.res = "panic" /\ ev'.prim = "none"
           /\ ~curses'[h].color
           /\ curses' = curses
           /\ sessions' = sessions
           /\ INITIALIZED' = INITIALIZED]_vars

W_C9 ==
    /\ ev.op \in {"color", "color_mut"} /\ ev.res = "panic"
    /\ curses[ev.h].scPrim = MaxStartColorCalls /\ ~curses[ev.h].scOk

\* C10: once a start_color call on a handle has returned Ok, every later
\* call on it returns Ok, invokes no primitive and leaves Color in place.
C10_StartColorIdempotent ==
    [][\A h \in Handles :
        (Fired /\ ev'.op = "start_color" /\ ev'.h = h /\ curses[h].scOk)
        => /\ ev'.res = "ok" /\ ev'.prim = "none"
           /\ curses[h].color /\ curses'[h].color
           /\ curses' = curses]_vars

W_C10 ==
    /\ ev.op = "start_color" /\ ev.res = "ok" /\ ev.prim = "none"
    /\ curses[ev.h].scOk /\ curses[ev.h].color

\* C11: over every sequence of start_color calls on one handle, failed calls
\* included, pancurses::start_color is invoked at most once for the session.
C11_StartColorPrimitiveOnce ==
    \A h \in Handles : curses[h].scPrim <= 1

\* C12: set_timeout accepts a Duration (gets past its validation to
\* half_delay) exactly when it lies between 0.1 s and 2.55 s, both included;
\* any other Duration returns Err with no primitive invoked and no
\* half-delay set.
InWindow(d) ==
    \/ d.secs = 0 /\ d.nanos >= 100000000
    \/ d.secs = 1
    \/ d.secs = 2 /\ d.nanos <= 550000000

C12_TimeoutWindow ==
    call.op = "set_timeout" =>
        /\ (call.prims # <<>>) <=> InWindow(duration)
        /\ ~InWindow(duration) =>
              call.res = "err" /\ call.prims = <<>> /\ terminal.half_delay = 0

\* C13: for every Duration set_timeout accepts, the argument of half_delay is
\* the number of whole tenths of a second in the Duration.
C13_TenthsRoundedDown ==
    (call.op = "set_timeout" /\ call.prims # <<>>) =>
        /\ call.prims = <<"half_delay">>
        /\ call.tenths = 10 * duration.secs + duration.nanos \div 100000000
        /\ call.res = "ok" => terminal.half_delay = call.tenths

W_C13 ==
    /\ call.op = "set_timeout" /\ call.res = "ok"
    /\ duration = [secs |-> 0, nanos |-> 160000000]
    /\ call.tenths = 1 /\ terminal.half_delay = 1

\* C15: a set_input_buffering_mode call whose two primitives both succeed
\* leaves the (cbreak, raw) pair the mode stands for, whatever the pair was
\* before: Buffered (off, off), UnbufferedWithSignals (on, off),
\* UnbufferedNoSignals (on, on).
ModePair(mode) ==
    CASE mode = "Buffered" -> <<FALSE, FALSE>>
      [] mode = "UnbufferedWithSignals" -> <<TRUE, FALSE>>
      [] mode = "UnbufferedNoSignals" -> <<TRUE, TRUE>>

C15_ModeSetsBothFlags ==
    (call.op = "set_input_buffering_mode" /\ call.res = "ok") =>
        /\ Len(call.prims) = 2
        /\ <<terminal.cbreak, terminal.raw>> = ModePair(call.mode)

W_C15 ==
    /\ call.op = "set_input_buffering_mode" /\ call.res = "ok"
    /\ call.mode = "UnbufferedWithSignals"
    /\ call.before = <<TRUE, TRUE>>
    /\ <<terminal.cbreak, terminal.raw>> = <<TRUE, FALSE>>

\* C14: over every interleaving of key_name calls, at most one thread is
\* inside pancurses::keyname; a thread is inside key_name's critical section
\* exactly while it holds the key_name_mutex of the handle it called, and
\* all threads inside key_name at the same time called the same handle.
C14_KeynameSerialized ==
    /\ Cardinality({t \in Threads : pc[t] = "kn_prim"}) <= 1
    /\ \A t \in Threads :
          pc[t] \in InKeyName =>
             /\ curses[self[t]].state = "live"
             /\ curses[self[t]].key_name_mutex = t
    /\ \A h \in Handles :
          curses[h].key_name_mutex # NoThread =>
             /\ pc[curses[h].key_name_mutex] \in InKeyName
             /\ self[curses[h].key_name_mutex] = h
    /\ \A t, u \in Threads :
          (pc[t] \in InKeyName /\ pc[u] \in InKeyName) => self[t] = self[u]

W_C14 ==
    \E t \in Threads :
       /\ pc[t] = "kn_prim"
       /\ curses[self[t]].owner # t
       /\ ev.op = "key_name" /\ ev.h = self[t]

\* C16: a region copy that returns Ok changes the destination inside the
\* rectangle only; overwrite_region_onto and put_window_region make every
\* cell of the rectangle equal to its source cell, blank cells included;
\* overlay_region_onto and put_window_text_region do so for the non-blank
\* source cells and leave the destination cell as it was under a blank one.
Overwrites == {"overwrite_region_onto", "put_window_region"}

C16_OverwriteCopiesBlanks ==
    [][(copied' # copied /\ copied'.res = "ok") =>
        \A x \in DOMAIN destination :
           LET inside == /\ x >= copied'.destination_start
                         /\ x <= copied'.destination_end
               from == source[copied'.source_start
                              + (x - copied'.destination_start)]
           IN  /\ ~inside => destination'[x] = destination[x]
               /\ (inside /\ copied'.op \in Overwrites) =>
                     destination'[x] = from
               /\ (inside /\ copied'.op \notin Overwrites) =>
                     destination'[x] = IF from = Blank THEN destination[x]
                                       ELSE from]_vars

\* every Window that is held wraps an allocated native window of its own
OwnSurface ==
    \A a \in Wins :
       windows[a].state = "live" =>
          /\ windows[a].w # RootWin
          /\ surfaces[windows[a].w].alive
          /\ \A b \in Wins \ {a} :
                windows[b].state = "live" => windows[b].w # windows[a].w

\* C17: a clone has a native window of its own, shared with no other Window
\* and allocated for as long as the clone is held, whatever happens to the
\* original; and a step that changes what one Window shows changes what no
\* other Window shows.
C17_CloneIndependent ==
    [][/\ OwnSurface'
       /\ (windows' = windows /\ surfaces' # surfaces) =>
             \A a, b \in AllWins :
                (/\ a # b
                 /\ Live(a) /\ Live(b) /\ Live(a)' /\ Live(b)'
                 /\ Cell(a)' # Cell(a))
                => Cell(b)' = Cell(b)]_vars

W_C17 ==
    \E n \in Wins :
       /\ windows[n].state = "live" /\ windows[n].kind = "dup"
       /\ windows[n].from \in Wins
       /\ windows[windows[n].from].state = "free"
       /\ surfaces[windows[n].w].alive
       /\ Cell(n) # Cell(RootWin)

\* no Window that is held has had its native window released
NotReleased ==
    \A w \in Wins :
       windows[w].state = "live" =>
          /\ surfaces[windows[w].w].alive
          /\ surfaces[windows[w].w].delwins = 0

C19_RootNotDuplicated ==
    \A n \in Wins :
       (windows[n].state = "live" /\ windows[n].from = RootWin) =>
          \E h \in Handles : curses[h].state = "live"

\* C20: no two threads are inside a primitive that writes the same native
\* window at the same time.
C20_WritesAreExclusive ==
    \A t, u \in Threads :
       (t # u /\ pc[t] = "insch" /\ pc[u] = "insch") =>
          Surf(wself[t]) # Surf(wself[u])

\* C21: for every raw status, check returns Err exactly when the status is
\* pancurses::ERR and Ok for every other value, negative ones included; the
\* result is the bare Err or Ok, nothing else
C21_CheckErrIffSentinel ==
    checked # "none" =>
        /\ checked \in {"ok", "err"}
        /\ (checked = "err") <=> (rawstatus = ERR)

\* a negative status other than ERR has been checked and found Ok
W_C21 == checked = "ok" /\ rawstatus < ERR

\* the primitives a call invoked are all different ones
NoRepeat(prims) ==
    \A i, j \in 1..Len(prims) : prims[i] = prims[j] => i = j

\* C22: every Result-returning operation of Curses invokes each of its
\* primitives at most once per call and returns Err whenever a primitive
\* it invoked reported failure
C22_FailureSurfaced ==
    call.op # "none" =>
        /\ NoRepeat(call.prims)
        /\ call.fail => call.res = "err"

\* C23: initscr checks the flag, sets the flag and calls pancurses::initscr
\* while it holds the guard, so no other thread can take the guard between
\* the flag being set and the primitive having completed
C23_InitscrUnderGuard ==
    \A t \in Threads :
        pc[t] \in {"is_check", "is_set", "is_prim"} => guard = t

\* C24: a handle gets its Color only in a start_color call on it whose
\* primitive succeeded; a start_color call that failed leaves the handle
\* without Color; and the handle a successful initscr returns has none,
\* whatever the session before it had
C24_ColorOnlyAfterSuccess ==
    [][\A h \in Handles :
        /\ (~curses[h].color /\ curses'[h].color)
            => /\ ev'.op = "start_color" /\ ev'.h = h
               /\ ev'.prim = "start_color" /\ ev'.res = "ok"
        /\ (Fired /\ ev'.op = "start_color" /\ ev'.h = h /\ ev'.res = "err")
            => ~curses'[h].color
        /\ (Fired /\ ev'.op = "initscr" /\ ev'.h = h /\ ev'.res = "ok")
            => ~curses'[h].color]_vars

\* a handle has Color after a first start_color on it failed and a second
\* succeeded
W_C24 ==
    \E h \in Handles :
        /\ curses[h].color
        /\ curses[h].scPrim = MaxStartColorCalls
        /\ ev.op = "start_color" /\ ev.h = h /\ ev.res = "ok"

\* C25: set_input_buffering_mode always invokes both primitives of the mode,
\* the second also when the first reported failure, and returns Err exactly
\* when at least one of the two failed
C25_BothPrimitivesInvoked ==
    call.op = "set_input_buffering_mode" =>
        /\ call.prims = ModePrims(call.mode)
        /\ Len(call.rcs) = 2
        /\ (call.res = "err") <=> (call.rcs[1] = ERR \/ call.rcs[2] = ERR)
        /\ (call.res = "ok") <=> (call.rcs[1] # ERR /\ call.rcs[2] # ERR)

\* UnbufferedNoSignals on a line-buffered terminal: cbreak failed, raw was
\* invoked all the same and took effect, and the call returned Err
W_C25 ==
    /\ call.op = "set_input_buffering_mode"
    /\ call.mode = "UnbufferedNoSignals"
    /\ call.rcs = <<ERR, OK>> /\ call.res = "err"
    /\ call.before = <<FALSE, FALSE>>
    /\ terminal.raw /\ ~terminal.cbreak

\* the Curses values in being: returned by initscr and neither forgotten by
\* end_curses nor dropped yet
Existing == {h \in Handles : curses[h].state = "live"}

\* the Curses has been moved into end_curses or drop and the end_window run
\* for it has ended the session; the value only waits to be forgotten or
\* for drop to return
Torn(h) ==
    \E u \in Threads :
        /\ self[u] = h
        /\ caller[u] \in {"end_curses", "drop"}
        /\ pc[u] \in {"ew_unlock", "ec_forget", "drop_unwrap"}
        /\ r[u] = "ok"

\* C26: at most one Curses handle exists at any time, for every
\* interleaving of initscr, end_curses and drops across threads
C26_AtMostOneHandle == Cardinality(Existing) <= 1

\* C26, amended: at most one Curses handle whose session has not been ended
\* exists at any time; a handle inside end_curses or drop whose end_window
\* has succeeded may still be in being when the next initscr returns
C26_AtMostOneHandleInSession ==
    Cardinality({h \in Existing : ~Torn(h)}) <= 1

\* a handle whose teardown has ended its session waits to be forgotten
\* while the handle of the next session is already in use
W_C26 ==
    \E h, k \in Existing :
        /\ h # k /\ Torn(h) /\ ~Torn(k)
        /\ ev.op = "initscr" /\ ev.res = "ok" /\ ev.h = k

\* C27: whenever a Curses handle exists the INITIALIZED flag is set, and
\* end_window, reached only through end_curses and Drop, never takes its
\* "no live session" branch: it always finds the flag set
C27_HandleImpliesFlag ==
    /\ Existing # {} => INITIALIZED
    /\ ev.op = "end_window" => ev.flag

\* C27, amended: whenever a Curses handle exists whose session has not been
\* ended the INITIALIZED flag is set (a handle inside end_curses or drop
\* outlives the flag its end_window has cleared); end_window, reached only
\* through end_curses and Drop, always finds the flag set and invokes endwin
C27_HandleInSessionImpliesFlag ==
    /\ (\E h \in Existing : ~Torn(h)) => INITIALIZED
    /\ ev.op = "end_window" => (ev.flag /\ ev.prim = "endwin")
    /\ \A t \in Threads : pc[t] = "ew_body" => INITIALIZED

\* end_window, having found the flag set, has just cleared it for a handle
\* that still waits to be forgotten or for its drop to return
W_C27 ==
    /\ ev.op = "end_window" /\ ev.flag /\ ev.res = "ok"
    /\ ~INITIALIZED
    /\ ev.h \in Existing /\ Torn(ev.h)
    /\ sessions = 0

\* the key-name Mutexes the thread holds
KeyNameLocks(t) == {h \in Handles : curses[h].key_name_mutex = t}

\* no thread holds the guard and a key-name Mutex together, and a thread
\* that is in no call, or back from end_window (about to forget the
\* handle, or to panic or return from drop), holds no lock
LocksReleased ==
    \A t \in Threads :
        /\ ~(guard = t /\ KeyNameLocks(t) # {})
        /\ pc[t] \in {"idle", "is_prim", "ec_forget", "drop_unwrap"}
            => guard # t
        /\ pc[t] \notin InKeyName => KeyNameLocks(t) = {}

\* C28: no thread blocks forever on a lock of the library: the guard and a
\* key-name lock are never held together by one thread, every operation has
\* released its lock when it returns or panics (a failing drop panics with
\* the guard free), and a lock that is held is released again, so a later
\* initscr gets the guard and returns
C28_NoLockHeldForever ==
    /\ []LocksReleased
    /\ \A t \in Threads : (guard = t) ~> (guard = NoThread)
    /\ \A t \in Threads : (pc[t] = "is_check") ~> (pc[t] \in {"idle", "is_prim"})
    /\ \A h \in Handles :
          (curses[h].key_name_mutex # NoThread)
              ~> (curses[h].key_name_mutex = NoThread)

\* after a drop has panicked on a failed endwin, another initscr call has
\* taken the guard
W_C28 ==
    /\ ev.op = "drop" /\ ev.res = "panic"
    /\ \E t \in Threads : pc[t] = "is_check" /\ guard = t

\* the last thing that happened under the guard was an end_window that
\* succeeded: no initscr has read the flag since
LastEndedOk == ev.op = "end_window" /\ ev.res = "ok"

\* C29: in lib.rs, Curses::end_window is idempotent: once a call has
\* succeeded and no initscr has been called since, every further end_window
\* call, the one drop makes included, returns Ok without invoking endwin,
\* and the drop does not panic
C29_EndWindowIdempotent ==
    [][\A t \in Threads :
        /\ (pc[t] = "ew_body" /\ pc'[t] = "ew_unlock" /\ LastEndedOk)
            => /\ r'[t] = "ok"
               /\ ev'.op = "end_window" /\ ev'.res = "ok"
               /\ ev'.prim = "none"
               /\ curses' = curses
               /\ sessions' = sessions
               /\ ~INITIALIZED /\ ~INITIALIZED'
        /\ (pc[t] = "drop_unwrap" /\ pc'[t] = "idle" /\ r[t] = "ok")
            => ev'.op = "drop" /\ ev'.res = "ok"]_vars

\* a handle is dropped right after an end_window that succeeded and with
\* its session ended: the end_window of the drop has returned Ok without
\* invoking endwin
W_C29 ==
    /\ ev.op = "end_window" /\ ev.res = "ok" /\ ev.prim = "none"
    /\ ev.afterOk
    /\ \E t \in Threads :
          /\ caller[t] = "drop" /\ pc[t] = "ew_unlock" /\ self[t] = ev.h
          /\ curses[ev.h].ended

\* C30: in lib.rs, endwin is only ever invoked through the handle returned
\* by the initscr that began the currently live session: a handle whose own
\* session has been ended never invokes endwin again, by a later
\* end_window or by its drop, on a session another initscr began afterwards
C30_EndwinByOwnHandle ==
    [][\A t \in Threads :
        (pc[t] = "ew_body" /\ pc'[t] = "ew_unlock" /\ ev'.prim = "endwin")
            => ~curses[self[t]].ended]_vars

====
